---- MODULE Spec2Model ----
(***************************************************************************)
(* Model of the edit-history (undo/redo snapshot stacks) of TextEditor in  *)
(* src/SimpleNote.py.                                                       *)
(*                                                                          *)
(* The buffer is a tk.Text widget.  `text` is the widget's editable         *)
(* content, a sequence of characters.  The widget always ends with one      *)
(* extra newline that cannot be deleted, so text.get("1.0", tk.END)         *)
(* returns the content followed by a newline (Get), while                   *)
(* text.delete("1.0", tk.END) followed by text.insert("1.0", s) makes the   *)
(* content exactly s (SetAll).                                              *)
(*                                                                          *)
(* The editor's handlers fall into groups that share no state except the    *)
(* buffer: the edit history, the debounced line-number refresh, and the     *)
(* autosave loop.  Each specification runs one group's handlers together    *)
(* with the edits that feed it and leaves the variables of the other groups *)
(* at their constructed values.                                             *)
(***************************************************************************)
EXTENDS Integers, Sequences, FiniteSets, TLC

VARIABLES
    text,                 \* content of self.text (without the widget's final newline)
    undo_stack,           \* self.undo_stack, most recent last
    redo_stack,           \* self.redo_stack, most recent last
    max_undo_stack_size,  \* self.max_undo_stack_size
    msg,                  \* title of the messagebox shown by the last handler, "none" if none
    op,                   \* history: the handler that ran last
    pre,                  \* history: op, text and stacks as they were before that handler
    recorded,             \* history (SpecFull only): snapshots pushed by save_undo_state
    update_line_number_scheduled,  \* self.update_line_number_scheduled
    line_timers,          \* update_line_numbers callbacks registered with master.after, not yet fired
    line_number_bar,      \* number of line numbers shown in self.line_number_bar
    line_bar_mapped,      \* self.line_number_bar.winfo_ismapped()
    file_path,            \* self.file_path: "None", "" (dialog cancelled) or a path
    last_content,         \* self.last_content
    autosave_timers,      \* check_for_changes callbacks registered with master.after, not yet fired
    io_outcome,           \* history: what the save / load run by the last handler did, "none" if it ran none
    raised,               \* history: the exception that left the last handler uncaught, "none" if none did
    config_file,          \* config.json on disk: [kind, data]
    theme_file,           \* themes.json on disk: [kind, data]
    pc,                   \* position of TextEditor.__init__
    config,               \* ConfigManager.config
    themes,               \* TextEditor.themes
    current_theme,        \* TextEditor.current_theme
    autosave_delay,       \* TextEditor.autosave_delay
    window_size,          \* <<width, height>> given to master.geometry
    dialogs,              \* messagebox.showerror dialogs shown while constructing
    warnings,             \* warnings printed or logged while constructing
    theme_manager,        \* the ThemeManager object
    returned,             \* history: what the last key or dialog handler returned
    args,                 \* history: the inputs of the last key or dialog handler
    modified,             \* text.edit_modified(), the widget's modified flag
    window,               \* the main window: "open" or "destroyed"
    prompts,              \* history: the answers given to the prompts of the last close_file
    calendar_open,        \* the calendar Toplevel windows that exist
    calendar_window       \* TextEditor.calendar_window: 0 for None, else a window id

histVars == <<text, undo_stack, redo_stack, max_undo_stack_size, msg, op, pre>>

refreshVars == <<update_line_number_scheduled, line_timers, line_number_bar, line_bar_mapped>>

autoVars == <<file_path, last_content, autosave_timers>>

autoHist == <<io_outcome, raised>>

loadVars == <<config_file, theme_file, pc, config, themes, current_theme,
              autosave_delay, window_size, dialogs, warnings, theme_manager>>

keyVars == <<returned, args>>

closeVars == <<modified, window, prompts>>

calendarVars == <<calendar_open, calendar_window>>

vars == <<histVars, recorded, refreshVars, autoVars, autoHist, loadVars,
          keyVars, closeVars, calendarVars>>

\* ---- bounds ------------------------------------------------------------
\* longest buffer content explored
MaxLen == 3
\* setting of max_undo_stack_size explored by Spec (the attribute is
\* adjustable; SpecFull runs the shipped value)
StackCap == 2
\* number of snapshots recorded beyond max_undo_stack_size in SpecFull
Extra == 3
\* most update_line_numbers callbacks let into the timer queue
MaxTimers == 2

\* ---- program constants -------------------------------------------------
\* self.max_undo_stack_size = 50
DefaultMaxUndoStackSize == 50

NL == "\n"

\* characters the user types in the explored runs
Chars == {"a"}

\* ---- the Text widget ----------------------------------------------------
\* text.get("1.0", tk.END): the content plus the widget's final newline
Get(t) == t \o <<NL>>

\* text.delete("1.0", tk.END); text.insert("1.0", s): the content becomes s
SetAll(s) == s

Last(s) == s[Len(s)]

Front(s) == SubSeq(s, 1, Len(s) - 1)

\* ---- configuration and theme files ---------------------------------------
\* a JSON object with no keys
EmptyDict == [k \in {} |-> 0]

\* dict.get(key, default)
DictGet(dict, key, default) == IF key \in DOMAIN dict THEN dict[key] ELSE default

\* the hardcoded configuration returned when config.json cannot be loaded
DefaultConfig ==
    [autosave_delay |-> 60000, window_width |-> 800, window_height |-> 600,
     window_x |-> 100, window_y |-> 100]

\* config.json as found on disk in the explored runs
ConfigFiles ==
    {[kind |-> "missing", data |-> EmptyDict],
     [kind |-> "malformed", data |-> EmptyDict],
     [kind |-> "valid", data |-> EmptyDict],
     [kind |-> "valid", data |-> ("autosave_delay" :> 1000)],
     [kind |-> "valid",
      data |-> [autosave_delay |-> 1000, window_width |-> 640, window_height |-> 480,
                window_x |-> 0, window_y |-> 0]]}

\* themes.json as found on disk in the explored runs; a theme is named by
\* where its colours come from
ThemeFiles ==
    {[kind |-> "missing", data |-> EmptyDict],
     [kind |-> "malformed", data |-> EmptyDict],
     [kind |-> "valid", data |-> EmptyDict],
     [kind |-> "valid", data |-> ("light" :> "file light")],
     [kind |-> "valid", data |-> ("dark" :> "file dark")],
     [kind |-> "valid", data |-> ("light" :> "file light") @@ ("dark" :> "file dark")]}

\* no ThemeManager has been constructed; fell_back and added are history:
\* load_themes used a built-in theme, add_theme accepted a theme
NoThemeManager ==
    [constructed |-> FALSE, themes |-> EmptyDict, current_theme |-> "unset",
     default_theme_used |-> FALSE, fell_back |-> FALSE, added |-> FALSE]

\* open() raises FileNotFoundError or json.load raises JSONDecodeError
Unloadable(file) == file.kind \in {"missing", "malformed"}

\* variant: an unloadable file yields an empty configuration
LoadConfig_empty(file) == IF Unloadable(file) THEN EmptyDict ELSE file.data

\* ---- ConfigManager.load_config -------------------------------------------
LoadConfig(file) == IF Unloadable(file) THEN DefaultConfig ELSE file.data

\* ---- TextEditor.load_themes ----------------------------------------------
\* the themes returned and the number of messagebox.showerror dialogs shown
EditorLoadThemes(file) ==
    IF Unloadable(file)
    THEN [themes |-> ("light" :> "builtin light"), dialogs |-> 1]
    ELSE [themes |-> file.data, dialogs |-> 0]

\* ---- ThemeManager.load_themes --------------------------------------------
\* the themes returned, the number of logging.warning calls made and whether
\* load_themes assigned True to self.default_theme_used
ManagerLoadThemes(file) ==
    IF Unloadable(file)
    THEN [themes |-> ("dark" :> "builtin dark"), warnings |-> 1,
          default_theme_used |-> TRUE]
    ELSE IF "dark" \notin DOMAIN file.data
    THEN [themes |-> file.data @@ ("dark" :> "builtin dark"), warnings |-> 1,
          default_theme_used |-> TRUE]
    ELSE [themes |-> file.data, warnings |-> 0, default_theme_used |-> FALSE]

\* ---- TextEditor.__init__, step by step ------------------------------------
\* before construction: any pair of files on disk
InitBoot ==
    /\ config_file \in ConfigFiles
    /\ theme_file \in ThemeFiles
    /\ pc = "start"
    /\ config = EmptyDict
    /\ themes = EmptyDict
    /\ current_theme = "unset"
    /\ autosave_delay = 0
    /\ window_size = <<0, 0>>
    /\ dialogs = 0
    /\ warnings = 0
    /\ theme_manager = NoThemeManager

\* self.config_manager = ConfigManager(); load_config prints a warning when
\* it falls back
editor_load_config ==
    /\ pc = "start"
    /\ config' = LoadConfig(config_file)
    /\ warnings' = warnings + (IF Unloadable(config_file) THEN 1 ELSE 0)
    /\ pc' = "config"
    /\ UNCHANGED <<config_file, theme_file, themes, current_theme, autosave_delay,
                   window_size, dialogs, theme_manager>>

\* self.themes = self.load_themes()
editor_load_themes ==
    /\ pc = "config"
    /\ LET r == EditorLoadThemes(theme_file) IN
       /\ themes' = r.themes
       /\ dialogs' = dialogs + r.dialogs
    /\ pc' = "themes"
    /\ UNCHANGED <<config_file, theme_file, config, current_theme, autosave_delay,
                   window_size, warnings, theme_manager>>

\* the rest of __init__: self.themes.get("dark", self.themes["light"]) evaluates
\* self.themes["light"] first and raises KeyError without a light theme;
\* otherwise the autosave delay and the window size are read from the config
editor_finish ==
    /\ pc = "themes"
    /\ IF "light" \notin DOMAIN themes
       THEN /\ pc' = "error"
            /\ UNCHANGED <<current_theme, autosave_delay, window_size>>
       ELSE /\ current_theme' = DictGet(themes, "dark", themes["light"])
            /\ autosave_delay' = DictGet(config, "autosave_delay", 60000)
            /\ window_size' = <<DictGet(config, "window_width", 800),
                                DictGet(config, "window_height", 600)>>
            /\ pc' = "constructed"
    /\ UNCHANGED <<config_file, theme_file, config, themes, dialogs, warnings,
                   theme_manager>>

\* ---- ThemeManager.__init__ -----------------------------------------------
\* load_themes sets default_theme_used when it falls back, then __init__
\* assigns False to it
theme_manager_init ==
    /\ ~theme_manager.constructed
    /\ LET r == ManagerLoadThemes(theme_file) IN
       /\ theme_manager' = [constructed |-> TRUE, themes |-> r.themes,
                            current_theme |-> "dark", default_theme_used |-> FALSE,
                            fell_back |-> r.default_theme_used, added |-> FALSE]
       /\ warnings' = warnings + r.warnings
    /\ UNCHANGED <<config_file, theme_file, pc, config, themes, current_theme,
                   autosave_delay, window_size, dialogs>>

\* names given to add_theme in the explored runs
ThemeNames == {"dark", "solar"}

\* ---- ThemeManager.add_theme, ThemeManager.save_themes ---------------------
\* valid says whether theme_data has the required keys; writable whether
\* save_themes can write the theme file (its IOError is logged)
add_theme ==
    /\ theme_manager.constructed
    /\ \E theme_name \in ThemeNames, valid \in BOOLEAN, writable \in BOOLEAN :
         IF valid
         THEN LET added == (theme_name :> "added") @@ theme_manager.themes IN
              /\ theme_manager' = [theme_manager EXCEPT !.themes = added,
                                       !.default_theme_used = FALSE,
                                       !.added = TRUE]
              /\ theme_file' = IF writable THEN [kind |-> "valid", data |-> added]
                               ELSE theme_file
         ELSE UNCHANGED <<theme_manager, theme_file>>
    /\ UNCHANGED <<config_file, pc, config, themes, current_theme,
                   autosave_delay, window_size, dialogs, warnings>>

\* the constructed editor the other specifications start from: both files
\* present and complete
InitLoaded ==
    /\ config_file = [kind |-> "valid", data |-> EmptyDict]
    /\ theme_file = [kind |-> "valid",
                     data |-> ("light" :> "file light") @@ ("dark" :> "file dark")]
    /\ pc = "constructed"
    /\ config = EmptyDict
    /\ themes = ("light" :> "file light") @@ ("dark" :> "file dark")
    /\ current_theme = "file dark"
    /\ autosave_delay = 60000
    /\ window_size = <<800, 600>>
    /\ dialogs = 0
    /\ warnings = 0
    /\ theme_manager = NoThemeManager

\* ---- TextEditor.__init__ ------------------------------------------------
InitEditor ==
    /\ text = <<>>
    /\ undo_stack = <<>>
    /\ redo_stack = <<>>
    /\ msg = "none"
    /\ op = "init"
    /\ pre = [op |-> "init", text |-> <<>>, undo |-> <<>>, redo |-> <<>>]
    /\ recorded = <<>>

\* line-number state after __init__: flag clear, nothing scheduled, the bar
\* empty and hidden (pack_forget in create_text_widget)
InitRefresh ==
    /\ update_line_number_scheduled = FALSE
    /\ line_timers = 0
    /\ line_number_bar = 0
    /\ line_bar_mapped = FALSE

\* file and autosave state after __init__: untitled, last_content = "", one
\* check_for_changes callback registered
InitAuto ==
    /\ file_path = "None"
    /\ last_content = <<>>
    /\ autosave_timers = 1
    /\ io_outcome = "none"
    /\ raised = "none"

\* no handler has returned yet, the buffer is unmodified, the main window is
\* open and self.calendar_window = None
InitWindows ==
    /\ returned = "none"
    /\ args = <<>>
    /\ modified = FALSE
    /\ window = "open"
    /\ prompts = [unsaved |-> "none", quit |-> "none"]
    /\ calendar_open = {}
    /\ calendar_window = 0

Init ==
    /\ InitEditor
    /\ max_undo_stack_size = StackCap
    /\ InitRefresh
    /\ InitAuto
    /\ InitLoaded
    /\ InitWindows

InitFull ==
    /\ InitEditor
    /\ max_undo_stack_size = DefaultMaxUndoStackSize
    /\ InitRefresh
    /\ InitAuto
    /\ InitLoaded
    /\ InitWindows

\* history bookkeeping shared by every handler
Hist(name) ==
    /\ op' = name
    /\ pre' = [op |-> op, text |-> text, undo |-> undo_stack, redo |-> redo_stack]

\* ---- plain editing (default bindings of the Text widget) ----------------
\* a printable key inserts its character; no snapshot is taken
type_char ==
    /\ Len(text) < MaxLen
    /\ \E c \in Chars : text' = Append(text, c)
    /\ msg' = "none"
    /\ Hist("type")
    /\ UNCHANGED <<undo_stack, redo_stack, max_undo_stack_size>>

\* the Delete key / cutting the selection removes text; no snapshot is taken
delete_char ==
    /\ text # <<>>
    /\ text' = Front(text)
    /\ msg' = "none"
    /\ Hist("delete")
    /\ UNCHANGED <<undo_stack, redo_stack, max_undo_stack_size>>

\* variant: reads the top of the popped stack without removing it
handle_undo_redo_nopop(t, stack_to_pop, stack_to_push) ==
    IF stack_to_pop # <<>>
    THEN [text |-> SetAll(Last(stack_to_pop)),
          pop  |-> stack_to_pop,
          push |-> Append(stack_to_push, Get(t))]
    ELSE [text |-> t, pop |-> stack_to_pop, push |-> stack_to_push]

\* ---- TextEditor._handle_undo_redo --------------------------------------
\* result of _handle_undo_redo(stack_to_pop, stack_to_push) on content t
handle_undo_redo(t, stack_to_pop, stack_to_push) ==
    IF stack_to_pop # <<>>
    THEN [text |-> SetAll(Last(stack_to_pop)),
          pop  |-> Front(stack_to_pop),
          push |-> Append(stack_to_push, Get(t))]
    ELSE [text |-> t, pop |-> stack_to_pop, push |-> stack_to_push]

\* variant: saves the current state on the redo stack before testing whether
\* there is anything to undo
custom_undo_pushfirst ==
    /\ undo_stack # <<>> => Len(Last(undo_stack)) <= MaxLen
    /\ undo_stack = <<>> => Len(redo_stack) < MaxLen
    /\ redo_stack' = Append(redo_stack, Get(text))
    /\ IF undo_stack # <<>>
       THEN /\ text' = SetAll(Last(undo_stack))
            /\ undo_stack' = Front(undo_stack)
            /\ msg' = "none"
       ELSE /\ msg' = "Undo"
            /\ UNCHANGED <<text, undo_stack>>
    /\ Hist("undo")
    /\ UNCHANGED max_undo_stack_size

\* ---- TextEditor.custom_undo ---------------------------------------------
custom_undo ==
    /\ undo_stack # <<>> => Len(Last(undo_stack)) <= MaxLen
    /\ IF undo_stack # <<>>
       THEN LET r == handle_undo_redo(text, undo_stack, redo_stack) IN
            /\ text' = r.text
            /\ undo_stack' = r.pop
            /\ redo_stack' = r.push
            /\ msg' = "none"
       ELSE /\ msg' = "Undo"
            /\ UNCHANGED <<text, undo_stack, redo_stack>>
    /\ Hist("undo")
    /\ UNCHANGED max_undo_stack_size

\* ---- TextEditor.custom_redo ---------------------------------------------
custom_redo ==
    /\ redo_stack # <<>> => Len(Last(redo_stack)) <= MaxLen
    /\ IF redo_stack # <<>>
       THEN LET r == handle_undo_redo(text, redo_stack, undo_stack) IN
            /\ text' = r.text
            /\ redo_stack' = r.pop
            /\ undo_stack' = r.push
            /\ msg' = "none"
       ELSE /\ msg' = "Redo"
            /\ UNCHANGED <<text, undo_stack, redo_stack>>
    /\ Hist("redo")
    /\ UNCHANGED max_undo_stack_size

\* variant: a push does not clear the redo stack
SaveResult_keepredo(t, undo, redo, max) ==
    LET current_state == Get(t) IN
    IF undo = <<>> \/ current_state # Last(undo)
    THEN LET pushed == Append(undo, current_state) IN
         [undo |-> IF Len(pushed) > max THEN Tail(pushed) ELSE pushed,
          redo |-> redo]
    ELSE [undo |-> undo, redo |-> redo]

\* variant: pushes without comparing with the top of the undo stack
SaveResult_nodedup(t, undo, redo, max) ==
    LET pushed == Append(undo, Get(t)) IN
    [undo |-> IF Len(pushed) > max THEN Tail(pushed) ELSE pushed,
     redo |-> <<>>]

\* variant: never evicts
SaveResult_noevict(t, undo, redo, max) ==
    LET current_state == Get(t) IN
    IF undo = <<>> \/ current_state # Last(undo)
    THEN [undo |-> Append(undo, current_state), redo |-> <<>>]
    ELSE [undo |-> undo, redo |-> redo]

\* variant: evicts with pop() (the newest entry) instead of pop(0)
SaveResult_evictnewest(t, undo, redo, max) ==
    LET current_state == Get(t) IN
    IF undo = <<>> \/ current_state # Last(undo)
    THEN LET pushed == Append(undo, current_state) IN
         [undo |-> IF Len(pushed) > max THEN Front(pushed) ELSE pushed,
          redo |-> <<>>]
    ELSE [undo |-> undo, redo |-> redo]

\* ---- TextEditor.save_undo_state -----------------------------------------
\* the two stacks after save_undo_state on content t
SaveResult(t, undo, redo, max) ==
    LET current_state == Get(t) IN
    IF undo = <<>> \/ current_state # Last(undo)
    THEN LET pushed == Append(undo, current_state) IN
         [undo |-> IF Len(pushed) > max THEN Tail(pushed) ELSE pushed,
          redo |-> <<>>]
    ELSE [undo |-> undo, redo |-> redo]

save_undo_state ==
    /\ LET r == SaveResult(text, undo_stack, redo_stack, max_undo_stack_size) IN
       /\ undo_stack' = r.undo
       /\ redo_stack' = r.redo
    /\ msg' = "none"
    /\ Hist("save")
    /\ UNCHANGED <<text, max_undo_stack_size>>

\* variant: clears only the undo stack
clear_undo_redo_undoonly ==
    /\ undo_stack' = <<>>
    /\ msg' = "Undo/Redo"
    /\ Hist("clear")
    /\ UNCHANGED <<text, redo_stack, max_undo_stack_size>>

\* ---- TextEditor.clear_undo_redo -----------------------------------------
clear_undo_redo ==
    /\ undo_stack' = <<>>
    /\ redo_stack' = <<>>
    /\ msg' = "Undo/Redo"
    /\ Hist("clear")
    /\ UNCHANGED <<text, max_undo_stack_size>>

\* ---- specifications -----------------------------------------------------
Next ==
    /\ \/ type_char
       \/ delete_char
       \/ save_undo_state
       \/ custom_undo
       \/ custom_redo
       \/ clear_undo_redo
    /\ UNCHANGED <<keyVars, closeVars, calendarVars, loadVars, recorded, refreshVars, autoVars, autoHist>>

Spec == Init /\ [][Next]_vars

\* SpecFull: the shipped max_undo_stack_size, the user alternating between an
\* empty buffer and a one-character buffer, and save_undo_state called only
\* when the text differs from the text of the previous call
full_type ==
    /\ text = <<>>
    /\ type_char
    /\ UNCHANGED <<keyVars, closeVars, calendarVars, loadVars, recorded, refreshVars, autoVars, autoHist>>

full_delete ==
    /\ delete_char
    /\ UNCHANGED <<keyVars, closeVars, calendarVars, loadVars, recorded, refreshVars, autoVars, autoHist>>

full_save ==
    /\ Len(recorded) < max_undo_stack_size + Extra
    /\ IF recorded = <<>> THEN TRUE ELSE Last(recorded) # Get(text)
    /\ save_undo_state
    /\ recorded' = Append(recorded, Get(text))
    /\ UNCHANGED <<keyVars, closeVars, calendarVars, loadVars, refreshVars, autoVars, autoHist>>

full_clear ==
    /\ clear_undo_redo
    /\ recorded' = <<>>
    /\ UNCHANGED <<keyVars, closeVars, calendarVars, loadVars, refreshVars, autoVars, autoHist>>

NextFull ==
    \/ full_type
    \/ full_delete
    \/ full_save
    \/ full_clear

SpecFull == InitFull /\ [][NextFull]_vars

\* ======================================================================
\* Properties of the edit history
\* ======================================================================
stacks == <<undo_stack, redo_stack>>

buffer_and_stacks == <<text, undo_stack, redo_stack>>

\* a custom_undo that found something to undo has just run
UndoDone == op = "undo" /\ pre.undo # <<>>

\* a custom_redo that found something to redo has just run
RedoDone == op = "redo" /\ pre.redo # <<>>

\* C1: custom_undo directly followed by custom_redo leaves the buffer text,
\* read by text.get("1.0", tk.END), exactly as it was before the undo.
\* (In a state where UndoDone holds, pre.text is the content before the undo.)
C1_UndoRedoRoundTrip ==
    [][(UndoDone /\ op' = "redo") => Get(text') = Get(pre.text)]_vars

\* C2: after save_undo_state calls followed by one custom_undo the buffer
\* text, read by text.get("1.0", tk.END), equals the snapshot that was on top
\* of the undo stack when undo was called.
C2_UndoInstallsTop ==
    [][(op = "save" /\ undo_stack # <<>> /\ op' = "undo")
          => Get(text') = Last(undo_stack)]_vars

\* C3: a successful undo pushes the current text onto the redo stack, pops
\* the top of the undo stack and installs it; redo is symmetric; and the entry
\* a redo pushes is exactly the text the preceding undo installed, so that
\* undo followed by redo gives back the text and both stacks.
C3_UndoStep ==
    (undo_stack # <<>> /\ op' = "undo")
        => /\ redo_stack' = Append(redo_stack, Get(text))
           /\ undo_stack' = Front(undo_stack)
           /\ Get(text') = Last(undo_stack)

C3_RedoStep ==
    (redo_stack # <<>> /\ op' = "redo")
        => /\ undo_stack' = Append(undo_stack, Get(text))
           /\ redo_stack' = Front(redo_stack)
           /\ Get(text') = Last(redo_stack)

C3_Scenario ==
    (UndoDone /\ op' = "redo")
        => /\ Get(text') = Get(pre.text)
           /\ undo_stack' = pre.undo
           /\ redo_stack' = pre.redo

C3_PushPopInstall ==
    [][C3_UndoStep /\ C3_RedoStep /\ C3_Scenario]_vars

\* C4: custom_undo on an empty undo stack and custom_redo on an empty redo
\* stack only show the empty-history message and change neither the buffer
\* nor the stacks; a second undo after the undo of a one-entry stack is such
\* a call.
C4_EmptyHistory ==
    [][/\ (undo_stack = <<>> /\ op' = "undo")
            => (msg' = "Undo" /\ UNCHANGED buffer_and_stacks)
       /\ (redo_stack = <<>> /\ op' = "redo")
            => (msg' = "Redo" /\ UNCHANGED buffer_and_stacks)
       /\ (UndoDone /\ Len(pre.undo) = 1 /\ op' = "undo")
            => (msg' = "Undo" /\ UNCHANGED buffer_and_stacks)]_vars

\* the second of two undos on a one-entry undo stack has failed
C4_Witness ==
    /\ op = "undo" /\ msg = "Undo"
    /\ pre.op = "undo" /\ pre.undo = <<>> /\ pre.redo # <<>>
    /\ text = pre.text /\ redo_stack = pre.redo

\* C5 as stated: after any save_undo_state call the redo stack is empty, also
\* when the text equals the top of the undo stack.
C5_RedoEmptyAfterAnySave ==
    [][op' = "save" => redo_stack' = <<>>]_vars

\* C5 amended: a save_undo_state call made while the undo stack is empty or
\* the text differs from its top leaves the redo stack empty, even if it was
\* non-empty before; a call made while the text equals the top leaves the
\* redo stack as it was.
C5_RedoEmptyAfterPush ==
    [][op' = "save"
          => IF undo_stack = <<>> \/ Get(text) # Last(undo_stack)
             THEN redo_stack' = <<>>
             ELSE redo_stack' = redo_stack]_vars

\* a save_undo_state call has emptied a non-empty redo stack
C5_Witness == op = "save" /\ pre.redo # <<>> /\ redo_stack = <<>>

\* C6 as stated: every operation that pushes onto the undo stack
\* (save_undo_state when it pushes, a successful custom_redo) leaves the redo
\* stack empty.
C6_AnyPushClearsRedo ==
    [][((op' = "save" /\ undo_stack' # undo_stack)
          \/ (op' = "redo" /\ redo_stack # <<>>))
          => redo_stack' = <<>>]_vars

\* C6 amended: every push done by save_undo_state leaves the redo stack
\* empty; the push done by custom_redo leaves on the redo stack exactly the
\* entries that were below the one it popped.
C6_SavePushClearsRedo ==
    [][/\ (op' = "save" /\ undo_stack' # undo_stack) => redo_stack' = <<>>
       /\ (op' = "redo" /\ redo_stack # <<>>)
            => (redo_stack' = Front(redo_stack)
                /\ Len(undo_stack') = Len(undo_stack) + 1)]_vars

\* a redo has pushed onto the undo stack and left entries on the redo stack
C6_Witness == RedoDone /\ Len(pre.redo) >= 2 /\ redo_stack # <<>>

\* C7: the second of two save_undo_state calls in a row (same buffer text)
\* changes neither stack, and the text is the top of the undo stack.
C7_SecondSaveNoOp ==
    [][(op = "save" /\ op' = "save")
          => /\ UNCHANGED stacks
             /\ undo_stack' # <<>>
             /\ Last(undo_stack') = Get(text')]_vars

\* two save_undo_state calls in a row, the second of which changed nothing
C7_Witness ==
    /\ op = "save" /\ pre.op = "save"
    /\ undo_stack = pre.undo /\ Last(undo_stack) = Get(text)

\* C8: neither stack is ever longer than max_undo_stack_size.
C8_StacksBounded ==
    /\ Len(undo_stack) <= max_undo_stack_size
    /\ Len(redo_stack) <= max_undo_stack_size

\* undos (whose pushes are unchecked) have filled the redo stack to the bound
C8_Witness == UndoDone /\ Len(redo_stack) = max_undo_stack_size

\* C9: once more than max_undo_stack_size snapshots with pairwise-distinct
\* consecutive texts have been recorded from empty stacks, the undo stack is
\* the max_undo_stack_size most recent of them, in recording order.
C9_KeepsMostRecent ==
    Len(recorded) > max_undo_stack_size
        => undo_stack = SubSeq(recorded,
                               Len(recorded) - max_undo_stack_size + 1,
                               Len(recorded))

\* more than max_undo_stack_size + 1 snapshots recorded, the last by a save
C9_Witness ==
    /\ op = "save"
    /\ Len(recorded) > max_undo_stack_size + 1
    /\ Len(undo_stack) = max_undo_stack_size

\* C10: clear_undo_redo empties both stacks, shows its completion message and
\* leaves the buffer alone; an undo or redo directly afterwards shows the
\* empty-history message and changes nothing.
C10_Clear ==
    [][/\ op' = "clear"
            => /\ undo_stack' = <<>> /\ redo_stack' = <<>>
               /\ msg' = "Undo/Redo"
               /\ text' = text
       /\ (op = "clear" /\ op' = "undo")
            => (msg' = "Undo" /\ UNCHANGED buffer_and_stacks)
       /\ (op = "clear" /\ op' = "redo")
            => (msg' = "Redo" /\ UNCHANGED buffer_and_stacks)]_vars

\* a redo directly after a clear has shown the empty-history message
C10_Witness ==
    /\ op = "redo" /\ msg = "Redo"
    /\ pre.op = "clear" /\ pre.undo = <<>> /\ pre.redo = <<>>
    /\ text # <<>>

\* ======================================================================
\* Line-number refresh (debounce)
\* ======================================================================
\* characters removed by str.strip() / str.lstrip()
Whitespace == {" ", "\t", NL}

RECURSIVE LStrip(_)
\* str.lstrip()
LStrip(s) == IF s # <<>> /\ Head(s) \in Whitespace THEN LStrip(Tail(s)) ELSE s

RECURSIVE RStrip(_)
\* str.rstrip()
RStrip(s) == IF s # <<>> /\ Last(s) \in Whitespace THEN RStrip(Front(s)) ELSE s

\* str.strip()
Strip(s) == RStrip(LStrip(s))

\* str.count(c) for a single character c
Count(s, c) == Cardinality({i \in 1..Len(s) : s[i] = c})

\* line_count computed by update_line_numbers for buffer content t
RenderedLines(t) ==
    LET content == Strip(Get(t)) IN
    IF content # <<>> THEN Count(content, NL) + 1 ELSE 1

\* variant: redraws the bar and leaves the flag as it is
UpdateLineNumbers_noreset ==
    /\ line_number_bar' = RenderedLines(text)
    /\ UNCHANGED update_line_number_scheduled

\* the body of update_line_numbers: redraw the bar, reset the flag
UpdateLineNumbers ==
    /\ line_number_bar' = RenderedLines(text)
    /\ update_line_number_scheduled' = FALSE

\* ---- TextEditor.delayed_update_line_numbers -----------------------------
delayed_update_line_numbers ==
    /\ ~update_line_number_scheduled => line_timers < MaxTimers
    /\ IF ~update_line_number_scheduled
       THEN /\ update_line_number_scheduled' = TRUE
            /\ line_timers' = line_timers + 1
       ELSE UNCHANGED <<update_line_number_scheduled, line_timers>>
    /\ UNCHANGED <<line_number_bar, line_bar_mapped>>

\* ---- TextEditor.update_line_numbers, run by the timer -------------------
update_line_numbers ==
    /\ line_timers > 0
    /\ line_timers' = line_timers - 1
    /\ UpdateLineNumbers
    /\ msg' = "none"
    /\ Hist("refresh")
    /\ UNCHANGED <<text, undo_stack, redo_stack, max_undo_stack_size, line_bar_mapped>>

\* ---- TextEditor.toggle_line_numbers -------------------------------------
toggle_line_numbers ==
    /\ IF line_bar_mapped
       THEN /\ line_bar_mapped' = FALSE
            /\ UNCHANGED <<line_number_bar, update_line_number_scheduled>>
       ELSE /\ line_bar_mapped' = TRUE
            /\ UpdateLineNumbers
    /\ msg' = "none"
    /\ Hist("toggle")
    /\ UNCHANGED <<text, undo_stack, redo_stack, max_undo_stack_size, line_timers>>

\* ---- TextEditor.on_enter_pressed (cursor at the end of the buffer) -------
\* text of the line the cursor is on
RECURSIVE LastLine(_)
LastLine(t) ==
    IF t = <<>> \/ Last(t) = NL THEN <<>> ELSE Append(LastLine(Front(t)), Last(t))

Spaces(n) == [i \in 1..n |-> " "]

\* '\n' + ' ' * indent_level
EnterInsertion(t) ==
    LET current_line == LastLine(t)
        indent_level == Len(current_line) - Len(LStrip(current_line))
    IN  <<NL>> \o Spaces(indent_level)

\* <Return> is bound to on_enter_pressed, which returns 'break'; being the
\* more specific binding it replaces <Any-KeyPress> for this key
on_enter_pressed ==
    /\ Len(text) + Len(EnterInsertion(text)) <= MaxLen
    /\ LET r == SaveResult(text, undo_stack, redo_stack, max_undo_stack_size) IN
       /\ undo_stack' = r.undo
       /\ redo_stack' = r.redo
    /\ text' = text \o EnterInsertion(text)
    /\ msg' = "none"
    /\ Hist("enter")
    /\ UNCHANGED max_undo_stack_size

\* ---- key presses as the widget dispatches them --------------------------
\* a printable key: <Any-KeyPress> runs delayed_update_line_numbers, then the
\* class binding inserts the character
key_press ==
    /\ delayed_update_line_numbers
    /\ type_char
    /\ UNCHANGED <<keyVars, closeVars, calendarVars, loadVars, recorded, autoVars, autoHist>>

\* the Delete key: the same notification, then the class binding deletes
key_delete ==
    /\ delayed_update_line_numbers
    /\ delete_char
    /\ UNCHANGED <<keyVars, closeVars, calendarVars, loadVars, recorded, autoVars, autoHist>>

refresh_enter ==
    /\ on_enter_pressed
    /\ UNCHANGED <<keyVars, closeVars, calendarVars, loadVars, recorded, refreshVars, autoVars, autoHist>>

refresh_timer ==
    /\ update_line_numbers
    /\ UNCHANGED <<keyVars, closeVars, calendarVars, loadVars, recorded, autoVars, autoHist>>

refresh_toggle ==
    /\ toggle_line_numbers
    /\ UNCHANGED <<keyVars, closeVars, calendarVars, loadVars, recorded, autoVars, autoHist>>

NextRefresh ==
    \/ key_press
    \/ key_delete
    \/ refresh_enter
    \/ refresh_timer
    \/ refresh_toggle

SpecRefresh == Init /\ [][NextRefresh]_vars

\* an execution of update_line_numbers is the step being taken
UpdateStep == op' = "refresh" \/ (op' = "toggle" /\ ~line_bar_mapped)

\* C12: at most one update_line_numbers callback is pending at any time.
C12_OnePending == line_timers <= 1

\* C13: the notifications delivered before a timer fires get exactly one
\* update_line_numbers execution (when the timer fires no other callback is
\* left pending), and it renders the buffer as it is when it runs.
C13_OneExecution ==
    [][op' = "refresh"
          => /\ line_timers' = 0
             /\ ~update_line_number_scheduled'
             /\ line_number_bar' = RenderedLines(text)]_vars

\* C14: update_line_numbers renders as many line numbers as the buffer
\* content has newline characters, plus one (1 for an empty buffer).
C14_LineCount ==
    [][UpdateStep => line_number_bar' = Count(text', NL) + 1]_vars

\* ======================================================================
\* Files and autosave
\* ======================================================================
\* the path the file dialogs and drag-and-drop deliver in the explored runs
Paths == {"f.txt"}

\* contents of the files opened in the explored runs
FileContents == {<<>>, <<"a">>, <<"a", NL>>}

\* text.get('1.0', 'end-1c'): the content without the widget's final newline
GetContent(t) == t

\* not self.file_path
NoPath(fp) == fp \in {"None", ""}

\* StatusBar.update_status_bar(file_path, ...) evaluates os.path.basename for
\* a file_path that is not None, and StatusBar.py does not import os
StatusBarRaises(fp) == fp # "None"

\* ---- TextEditor.save ----------------------------------------------------
\* save() on buffer content t: dialog is the answer of asksaveasfilename
\* ("" when cancelled), io says whether opening and writing the file works
SaveRun(fp, t, lc, dialog, io) ==
    LET path == IF NoPath(fp) THEN dialog ELSE fp IN
    IF NoPath(path)
    THEN [file_path |-> path, last_content |-> lc, outcome |-> "cancelled", msg |-> "none"]
    ELSE IF io = "fail"
    THEN [file_path |-> path, last_content |-> lc, outcome |-> "failed", msg |-> "Error"]
    ELSE [file_path |-> path, last_content |-> GetContent(t), outcome |-> "written",
          msg |-> IF StatusBarRaises(path) THEN "Error" ELSE "Saved"]

save ==
    /\ \E dialog \in Paths \cup {""}, io \in {"ok", "fail"} :
         LET r == SaveRun(file_path, text, last_content, dialog, io) IN
         /\ file_path' = r.file_path
         /\ last_content' = r.last_content
         /\ io_outcome' = r.outcome
         /\ msg' = r.msg
    /\ raised' = "none"
    /\ Hist("file_save")
    /\ UNCHANGED <<text, undo_stack, redo_stack, max_undo_stack_size,
                   autosave_timers>>

\* variant: registers the next check only when there was nothing to save
check_for_changes_noresched ==
    /\ autosave_timers > 0
    /\ LET current_content == Get(text) IN
       IF current_content # last_content
       THEN \E dialog \in Paths \cup {""}, io \in {"ok", "fail"} :
              LET r == SaveRun(file_path, text, last_content, dialog, io) IN
              /\ file_path' = r.file_path
              /\ last_content' = current_content
              /\ io_outcome' = r.outcome
              /\ msg' = r.msg
              /\ autosave_timers' = autosave_timers - 1
       ELSE /\ io_outcome' = "none"
            /\ msg' = "none"
            /\ autosave_timers' = (autosave_timers - 1) + 1
            /\ UNCHANGED <<file_path, last_content>>
    /\ raised' = "none"
    /\ Hist("tick")
    /\ UNCHANGED <<text, undo_stack, redo_stack, max_undo_stack_size>>

\* ---- TextEditor.check_for_changes, run by the timer ---------------------
check_for_changes ==
    /\ autosave_timers > 0
    /\ LET current_content == Get(text) IN
       IF current_content # last_content
       THEN \E dialog \in Paths \cup {""}, io \in {"ok", "fail"} :
              LET r == SaveRun(file_path, text, last_content, dialog, io) IN
              /\ file_path' = r.file_path
              /\ last_content' = current_content
              /\ io_outcome' = r.outcome
              /\ msg' = r.msg
       ELSE /\ io_outcome' = "none"
            /\ msg' = "none"
            /\ UNCHANGED <<file_path, last_content>>
    /\ autosave_timers' = (autosave_timers - 1) + 1
    /\ raised' = "none"
    /\ Hist("tick")
    /\ UNCHANGED <<text, undo_stack, redo_stack, max_undo_stack_size>>

\* ---- TextEditor.open_file_directly (drag and drop) ----------------------
\* readable is FALSE when opening or reading raises, read is the content;
\* the handler never touches the undo and redo stacks
open_file_directly ==
    /\ \E path \in Paths, readable \in BOOLEAN, read \in FileContents :
         IF ~readable
         THEN /\ io_outcome' = "failed"
              /\ msg' = "Error"
              /\ UNCHANGED <<text, file_path, last_content>>
         ELSE /\ text' = SetAll(read)
              /\ file_path' = path
              /\ last_content' = read
              /\ io_outcome' = "loaded"
              /\ msg' = IF StatusBarRaises(path) THEN "Error" ELSE "none"
    /\ raised' = "none"
    /\ Hist("drop")
    /\ UNCHANGED <<undo_stack, redo_stack, max_undo_stack_size,
                   autosave_timers>>

\* ---- TextEditor.open_file (File > Open) ---------------------------------
\* dialog is the answer of askopenfilename.  After the state below has been
\* updated the handler ends in self.status_bar.update_status_bar()(): the
\* call returns None and calling None raises TypeError, which none of the
\* except clauses (PermissionError, FileNotFoundError, IOError) catches.
open_file ==
    /\ \E dialog \in Paths \cup {""}, readable \in BOOLEAN, read \in FileContents :
         IF dialog = ""
         THEN /\ io_outcome' = "cancelled"
              /\ msg' = "none"
              /\ raised' = "none"
              /\ UNCHANGED <<text, file_path, last_content>>
         ELSE IF ~readable
         THEN /\ io_outcome' = "failed"
              /\ msg' = "Error"
              /\ raised' = "none"
              /\ UNCHANGED <<text, file_path, last_content>>
         ELSE /\ text' = SetAll(read)
              /\ file_path' = dialog
              /\ last_content' = read
              /\ io_outcome' = "loaded"
              /\ msg' = "none"
              /\ raised' = "TypeError"
    /\ Hist("open")
    /\ UNCHANGED <<undo_stack, redo_stack, max_undo_stack_size,
                   autosave_timers>>

\* ---- the autosave specification ------------------------------------------
\* frame of a handler that runs no save and no load
NoIO ==
    /\ io_outcome' = "none"
    /\ raised' = "none"
    /\ UNCHANGED <<keyVars, closeVars, calendarVars, loadVars, autoVars, recorded, refreshVars>>

auto_type == type_char /\ NoIO

auto_delete == delete_char /\ NoIO

auto_snapshot == save_undo_state /\ NoIO

auto_save == save /\ UNCHANGED <<keyVars, closeVars, calendarVars, loadVars, recorded, refreshVars>>

auto_tick == check_for_changes /\ UNCHANGED <<keyVars, closeVars, calendarVars, loadVars, recorded, refreshVars>>

auto_drop == open_file_directly /\ UNCHANGED <<keyVars, closeVars, calendarVars, loadVars, recorded, refreshVars>>

auto_open == open_file /\ UNCHANGED <<keyVars, closeVars, calendarVars, loadVars, recorded, refreshVars>>

NextAuto ==
    \/ auto_type
    \/ auto_delete
    \/ auto_snapshot
    \/ auto_save
    \/ auto_tick
    \/ auto_drop
    \/ auto_open

SpecAuto == Init /\ [][NextAuto]_vars

\* the last handler loaded a file into the buffer
Loaded == op \in {"open", "drop"} /\ io_outcome = "loaded"

\* the last handler ran save() and the file was written
Written == op \in {"file_save", "tick"} /\ io_outcome = "written"

\* the step being taken is a check_for_changes that calls save()
TickSaves == op' = "tick" /\ io_outcome' # "none"

\* C11: after open_file or open_file_directly has loaded a file both history
\* stacks are empty.
C11_OpenClearsHistory ==
    [][(op' \in {"open", "drop"} /\ io_outcome' = "loaded")
          => (undo_stack' = <<>> /\ redo_stack' = <<>>)]_vars

\* C15: an autosave tick calls save only when the buffer differs from what
\* was last saved or loaded: not at the first tick on a fresh empty document,
\* not at the tick right after a save that wrote the file, not at the tick
\* right after a file was loaded.
C15_TickSavesOnlyChanges ==
    [][(op' = "tick" /\ (op = "init" \/ Written \/ Loaded)) => ~TickSaves]_vars

\* C16: a tick that finds the buffer as it was at the previous tick, directly
\* after it or with one other operation in between that left the content the
\* same, calls no save.
C16_UnchangedNoSave ==
    [][(op' = "tick" /\ (op = "tick" \/ (pre.op = "tick" /\ text = pre.text)))
          => ~TickSaves]_vars

\* C17: after a tick whose save failed or was cancelled, the next tick (no
\* edit in between) calls save again.
C17_RetryAfterFailure ==
    [][(op = "tick" /\ io_outcome \in {"failed", "cancelled"} /\ op' = "tick")
          => TickSaves]_vars

\* C18: exactly one check_for_changes callback is pending in every state,
\* whatever the ticks before it did.
C18_OneAutosaveCallback == autosave_timers = 1

\* a tick whose save failed has run and one callback is pending again
C18_Witness == op = "tick" /\ io_outcome = "failed" /\ autosave_timers = 1

\* C21: no exception leaves open_file, open_file_directly, save or
\* check_for_changes uncaught: each ends in success or in a notified error.
C21_NoUncaughtException ==
    op \in {"open", "drop", "file_save", "tick"} => raised = "none"

\* ======================================================================
\* Construction from the configuration and theme files
\* ======================================================================
load_frame ==
    UNCHANGED <<histVars, recorded, refreshVars, autoVars, autoHist,
                keyVars, closeVars, calendarVars>>

boot_config == editor_load_config /\ load_frame

boot_themes == editor_load_themes /\ load_frame

boot_finish == editor_finish /\ load_frame

boot_theme_manager == theme_manager_init /\ load_frame

boot_add_theme == add_theme /\ load_frame

NextLoad ==
    \/ boot_config
    \/ boot_themes
    \/ boot_finish
    \/ boot_theme_manager
    \/ boot_add_theme

InitLoad ==
    /\ InitEditor
    /\ max_undo_stack_size = DefaultMaxUndoStackSize
    /\ InitRefresh
    /\ InitAuto
    /\ InitBoot
    /\ InitWindows

SpecLoad == InitLoad /\ [][NextLoad]_vars

was_default_theme_used == theme_manager.default_theme_used

\* C27: a ThemeManager whose load_themes fell back to the built-in dark theme
\* (file missing, corrupted or without 'dark') reports was_default_theme_used()
\* = True until add_theme accepts a theme, and False otherwise.
C27_DefaultThemeFlag ==
    theme_manager.constructed
        => (was_default_theme_used <=> (theme_manager.fell_back /\ ~theme_manager.added))

\* C20: recovering from a missing or corrupted theme or config file shows no
\* blocking error dialog.
C20_NoErrorDialog ==
    (Unloadable(config_file) \/ Unloadable(theme_file)) => dialogs = 0

\* ======================================================================
\* Key and dialog handlers that mutate the text
\* ======================================================================
\* longest buffer content the key and dialog handlers are run on
MaxKeyLen == 5
\* iterations of the replace_text loop that are followed
MaxIterations == 8
\* setting of max_undo_stack_size explored by SpecKeys and SpecClose
KeyStackCap == 1

SP == " "

TAB == "\t"

\* buffer contents the key and dialog handlers start from
KeyBuffers ==
    {<<>>, <<"a">>, <<"a", "b", "a">>,
     <<SP, SP, SP, SP, "a">>, <<TAB, "a">>,
     <<"a", NL, "b">>, <<"a", NL, TAB, "b">>}

\* find_entry.get(): what a single-line Entry holds, "" included
SearchTerms == {<<>>, <<"a">>, <<"a", "a">>, <<"a", "b">>}

\* replace_entry.get()
Replacements == {<<>>, <<"b">>, <<"a", "a">>}

\* self.text.index('insert linestart') as an offset: the start of the line
\* the offset cursor is on
LineStart(t, cursor) ==
    LET newlines == {i \in 1..cursor : t[i] = NL} IN
    IF newlines = {} THEN 0 ELSE CHOOSE i \in newlines : \A j \in newlines : j <= i

\* self.text.index('insert lineend') as an offset
LineEnd(t, cursor) ==
    LET newlines == {i \in (cursor + 1)..Len(t) : t[i] = NL} IN
    IF newlines = {} THEN Len(t)
    ELSE (CHOOSE i \in newlines : \A j \in newlines : i <= j) - 1

\* str.startswith
StartsWith(line, prefix) ==
    Len(line) >= Len(prefix) /\ SubSeq(line, 1, Len(prefix)) = prefix

\* self.text.delete(index, index + 'nc') inside the content
DeleteChars(t, at, n) == SubSeq(t, 1, at) \o SubSeq(t, at + n + 1, Len(t))

\* self.text.insert(index, chars)
InsertChars(t, at, chars) == SubSeq(t, 1, at) \o chars \o SubSeq(t, at + 1, Len(t))

\* ---- TextEditor.on_backspace ---------------------------------------------
\* what on_backspace does to content t with the insert mark at cursor: the
\* content it leaves and the value it returns
Backspace(t, cursor) ==
    LET line_start == LineStart(t, cursor)
        line_end == LineEnd(t, cursor)
        line_text == SubSeq(t, line_start + 1, line_end)
    IN  IF cursor = line_start
        THEN [text |-> IF StartsWith(line_text, <<SP, SP, SP, SP>>)
                       THEN DeleteChars(t, cursor, 4)
                       ELSE IF StartsWith(line_text, <<TAB>>)
                       THEN DeleteChars(t, cursor, 1)
                       ELSE t,
              returned |-> "break"]
        ELSE [text |-> t, returned |-> "None"]

\* the class binding of <BackSpace>: delete the character before the insert
\* mark, nothing at the start of the buffer
DefaultBackspace(t, cursor) == IF cursor = 0 THEN t ELSE DeleteChars(t, cursor - 1, 1)

\* the <BackSpace> key with the insert mark anywhere in the buffer: the
\* widget binding on_backspace (it takes the place of <Any-KeyPress>), then
\* the class binding unless on_backspace returned 'break'
on_backspace ==
    /\ \E cursor \in 0..Len(text) :
         LET r == Backspace(text, cursor) IN
         /\ returned' = r.returned
         /\ args' = <<cursor>>
         /\ text' = IF r.returned = "break" THEN r.text ELSE DefaultBackspace(r.text, cursor)
    /\ LET r == SaveResult(text, undo_stack, redo_stack, max_undo_stack_size) IN
       /\ undo_stack' = r.undo
       /\ redo_stack' = r.redo
    /\ msg' = "none"
    /\ Hist("backspace")
    /\ UNCHANGED max_undo_stack_size

\* ---- TextEditor.replace_text ---------------------------------------------
\* self.text.search(pattern, start, stopindex=tk.END) as an offset: the first
\* match at or after start, -1 for no match
Search(t, pattern, start) ==
    LET hits == {i \in start..(Len(t) - Len(pattern)) :
                    SubSeq(t, i + 1, i + Len(pattern)) = pattern}
    IN  IF hits = {} THEN -1 ELSE CHOOSE i \in hits : \A j \in hits : i <= j

\* variant: the next search starts at the match, not after the replacement
RECURSIVE ReplaceLoop_rescan(_, _, _, _, _)
ReplaceLoop_rescan(t, start_pos, search_text, replace_with, left) ==
    IF left = 0 THEN [text |-> t, exited |-> FALSE]
    ELSE LET found == Search(t, search_text, start_pos) IN
         IF found = -1 THEN [text |-> t, exited |-> TRUE]
         ELSE ReplaceLoop_rescan(
                  InsertChars(DeleteChars(t, found, Len(search_text)), found, replace_with),
                  found, search_text, replace_with, left - 1)

\* the while loop of replace_text from start_pos on, followed for at most
\* left iterations; exited says whether the loop reached its break
RECURSIVE ReplaceLoop(_, _, _, _, _)
ReplaceLoop(t, start_pos, search_text, replace_with, left) ==
    IF left = 0 THEN [text |-> t, exited |-> FALSE]
    ELSE LET found == Search(t, search_text, start_pos) IN
         IF found = -1 THEN [text |-> t, exited |-> TRUE]
         ELSE ReplaceLoop(
                  InsertChars(DeleteChars(t, found, Len(search_text)), found, replace_with),
                  found + Len(replace_with), search_text, replace_with, left - 1)

replace_text ==
    /\ \E search_text \in SearchTerms, replace_with \in Replacements :
         /\ args' = <<search_text, replace_with>>
         /\ IF search_text = <<>>
            THEN /\ msg' = "Info"
                 /\ returned' = "None"
                 /\ UNCHANGED text
            ELSE LET r == ReplaceLoop(text, 0, search_text, replace_with, MaxIterations) IN
                 /\ r.exited => Len(r.text) <= MaxKeyLen
                 /\ text' = r.text
                 /\ returned' = IF r.exited THEN "None" ELSE "running"
                 /\ msg' = "none"
    /\ LET r == SaveResult(text, undo_stack, redo_stack, max_undo_stack_size) IN
       /\ undo_stack' = r.undo
       /\ redo_stack' = r.redo
    /\ Hist("replace")
    /\ UNCHANGED max_undo_stack_size

\* ---- TextEditor.toggle_style ---------------------------------------------
\* takes a snapshot, then adds or removes a tag; the characters stay
toggle_style ==
    /\ LET r == SaveResult(text, undo_stack, redo_stack, max_undo_stack_size) IN
       /\ undo_stack' = r.undo
       /\ redo_stack' = r.redo
    /\ msg' = "none"
    /\ returned' = "None"
    /\ args' = <<>>
    /\ Hist("style")
    /\ UNCHANGED <<text, max_undo_stack_size>>

\* ---- the key handler specification ----------------------------------------
\* handlers run one at a time on Tk's event loop: none starts while
\* replace_text is still in its loop
keys_frame ==
    /\ returned # "running"
    /\ UNCHANGED <<loadVars, recorded, refreshVars, autoVars, autoHist,
                   closeVars, calendarVars>>

keys_type == type_char /\ returned' = "none" /\ args' = <<>> /\ keys_frame

keys_enter == on_enter_pressed /\ returned' = "break" /\ args' = <<>> /\ keys_frame

keys_backspace == on_backspace /\ keys_frame

keys_replace == replace_text /\ keys_frame

keys_style == toggle_style /\ keys_frame

keys_undo == custom_undo /\ returned' = "None" /\ args' = <<>> /\ keys_frame

NextKeys ==
    \/ keys_type
    \/ keys_enter
    \/ keys_backspace
    \/ keys_replace
    \/ keys_style
    \/ keys_undo

InitKeys ==
    /\ text \in KeyBuffers
    /\ undo_stack = <<>>
    /\ redo_stack = <<>>
    /\ msg = "none"
    /\ op = "init"
    /\ pre = [op |-> "init", text |-> text, undo |-> <<>>, redo |-> <<>>]
    /\ recorded = <<>>
    /\ max_undo_stack_size = KeyStackCap
    /\ InitRefresh
    /\ InitAuto
    /\ InitLoaded
    /\ InitWindows

SpecKeys == InitKeys /\ [][NextKeys]_vars

\* the handlers that take a snapshot before they touch the text
SnapshotActions == {"enter", "backspace", "style", "replace"}

\* C22: a custom_undo directly after Enter, Backspace, a style toggle or
\* find/replace installs the text as it was before that action; typing a
\* character leaves both stacks alone.
C22_UndoRestoresPreAction ==
    [][/\ (op \in SnapshotActions /\ op' = "undo") => text' = pre.text
       /\ op' = "type" => UNCHANGED <<undo_stack, redo_stack>>]_vars

\* C25: on_backspace returns 'break' only when it removed indentation;
\* otherwise it returns None and the default backspace runs.
C25_BreakOnlyIfDedented ==
    [][op' = "backspace"
          => /\ returned' \in {"break", "None"}
             /\ returned' = "break" => text' # text]_vars

\* str.replace: every non-overlapping occurrence of search_text, taken left
\* to right, becomes replace_with
RECURSIVE ReplaceAll(_, _, _)
ReplaceAll(t, search_text, replace_with) ==
    IF Len(t) < Len(search_text) THEN t
    ELSE IF SubSeq(t, 1, Len(search_text)) = search_text
    THEN replace_with \o ReplaceAll(SubSeq(t, Len(search_text) + 1, Len(t)),
                                    search_text, replace_with)
    ELSE <<t[1]>> \o ReplaceAll(Tail(t), search_text, replace_with)

MaxCalendars == 2

\* the text select_date inserts: str(selected_date), one stand-in character
DateText == <<"d">>

\* a window id no existing window and no reference uses
FreshWindow ==
    CHOOSE id \in 1..(MaxCalendars + 1) :
        /\ id \notin calendar_open \cup {calendar_window}
        /\ \A other \in 1..(id - 1) : other \in calendar_open \cup {calendar_window}

\* ---- CalendarManager.open_calendar ----------------------------------------
\* creates a Toplevel whatever windows exist already and returns it
open_calendar(id) == calendar_open' = calendar_open \cup {id}

\* Calendar > Open Calendar: the lambda calls open_calendar and drops the result
menu_open_calendar ==
    /\ Cardinality(calendar_open \cup {calendar_window}) <= MaxCalendars
    /\ open_calendar(FreshWindow)
    /\ UNCHANGED calendar_window

\* ---- TextEditor.insert_date_from_calendar ----------------------------------
\* self.calendar_window.winfo_exists()
winfo_exists == calendar_window \in calendar_open

insert_date_from_calendar ==
    IF calendar_window = 0 \/ ~winfo_exists
    THEN /\ Cardinality(calendar_open \cup {calendar_window}) <= MaxCalendars
         /\ open_calendar(FreshWindow)
         /\ calendar_window' = FreshWindow
    ELSE UNCHANGED <<calendar_open, calendar_window>>

\* ---- CalendarManager.close_calendar (WM_DELETE_WINDOW of a calendar) -------
close_calendar ==
    /\ \E id \in calendar_open : calendar_open' = calendar_open \ {id}
    /\ UNCHANGED calendar_window

\* ---- CalendarManager.select_date (the Select button) -----------------------
\* inserts the date at the insert mark (here the end of the buffer), which
\* sets the widget's modified flag, then closes that calendar
select_date ==
    /\ Len(text) < MaxLen
    /\ \E id \in calendar_open : calendar_open' = calendar_open \ {id}
    /\ text' = text \o DateText
    /\ modified' = TRUE
    /\ msg' = "none"
    /\ Hist("date")
    /\ UNCHANGED <<undo_stack, redo_stack, max_undo_stack_size, calendar_window>>

\* ---- TextEditor.close_file (WM_DELETE_WINDOW of the main window) -----------
\* prompts records the answers to 'Unsaved Changes' and to 'Quit', "none" for
\* a prompt that was not shown; master.destroy() takes the calendar windows
\* with it
close_file ==
    /\ IF modified
       THEN \E choice \in {"yes", "no", "cancel"} :
              /\ prompts' = [unsaved |-> choice, quit |-> "none"]
              /\ IF choice = "cancel"
                 THEN /\ io_outcome' = "none"
                      /\ msg' = "none"
                      /\ UNCHANGED <<window, calendar_open, file_path, last_content>>
                 ELSE /\ IF choice = "yes"
                         THEN \E dialog \in Paths \cup {""}, io \in {"ok", "fail"} :
                                LET r == SaveRun(file_path, text, last_content, dialog, io) IN
                                /\ file_path' = r.file_path
                                /\ last_content' = r.last_content
                                /\ io_outcome' = r.outcome
                                /\ msg' = r.msg
                         ELSE /\ io_outcome' = "none"
                              /\ msg' = "none"
                              /\ UNCHANGED <<file_path, last_content>>
                      /\ window' = "destroyed"
                      /\ calendar_open' = {}
       ELSE \E answer \in {"ok", "cancel"} :
              /\ prompts' = [unsaved |-> "none", quit |-> answer]
              /\ window' = IF answer = "ok" THEN "destroyed" ELSE "open"
              /\ calendar_open' = IF answer = "ok" THEN {} ELSE calendar_open
              /\ io_outcome' = "none"
              /\ msg' = "none"
              /\ UNCHANGED <<file_path, last_content>>
    /\ raised' = "none"
    /\ Hist("close")
    /\ UNCHANGED <<text, undo_stack, redo_stack, max_undo_stack_size, modified,
                   autosave_timers, calendar_window>>

\* ---- the closing specification ---------------------------------------------
\* handlers run while the main window exists
close_frame ==
    /\ window = "open"
    /\ UNCHANGED <<loadVars, recorded, refreshVars, keyVars>>

\* frame of a handler that is not close_file and touches no file
NoPrompt ==
    /\ UNCHANGED <<window, prompts, calendarVars, autoVars>>
    /\ io_outcome' = "none"
    /\ raised' = "none"

\* typing inserts a character, which sets the modified flag
close_type ==
    /\ type_char
    /\ modified' = TRUE
    /\ NoPrompt
    /\ close_frame

\* Enter takes a snapshot and inserts the newline
close_enter ==
    /\ on_enter_pressed
    /\ modified' = TRUE
    /\ NoPrompt
    /\ close_frame

\* _handle_undo_redo ends with self.text.edit_modified(False)
close_undo ==
    /\ custom_undo
    /\ modified' = IF undo_stack # <<>> THEN FALSE ELSE modified
    /\ NoPrompt
    /\ close_frame

close_save ==
    /\ save
    /\ UNCHANGED <<closeVars, calendarVars>>
    /\ close_frame

close_calendar_menu ==
    /\ menu_open_calendar
    /\ UNCHANGED <<histVars, closeVars, autoVars, autoHist>>
    /\ close_frame

close_insert_date ==
    /\ insert_date_from_calendar
    /\ UNCHANGED <<histVars, closeVars, autoVars, autoHist>>
    /\ close_frame

close_calendar_closed ==
    /\ close_calendar
    /\ UNCHANGED <<histVars, closeVars, autoVars, autoHist>>
    /\ close_frame

close_select_date ==
    /\ select_date
    /\ UNCHANGED <<window, prompts, autoVars, autoHist>>
    /\ close_frame

close_window ==
    /\ close_file
    /\ close_frame

NextClose ==
    \/ close_type
    \/ close_enter
    \/ close_undo
    \/ close_save
    \/ close_window

\* ---- the calendar specification --------------------------------------------
NextCalendar ==
    \/ close_type
    \/ close_calendar_menu
    \/ close_insert_date
    \/ close_calendar_closed
    \/ close_select_date
    \/ close_window

InitClose ==
    /\ InitEditor
    /\ max_undo_stack_size = KeyStackCap
    /\ InitRefresh
    /\ InitAuto
    /\ InitLoaded
    /\ InitWindows

SpecClose == InitClose /\ [][NextClose]_vars

SpecCalendar == InitClose /\ [][NextCalendar]_vars

\* C23: close_file run on a buffer that differs from the last saved content
\* shows the 'Unsaved Changes' prompt before the window can be destroyed, and
\* answering Cancel leaves the window open.
C23_PromptsWhenUnsaved ==
    [][(op' = "close" /\ window = "open" /\ text # last_content)
          => /\ prompts'.unsaved # "none"
             /\ prompts'.unsaved = "cancel" => window' = "open"]_vars

\* C24: the main window is destroyed only by a close_file in which the user
\* answered OK to 'Do you really want to quit?'.
C24_QuitConfirmed ==
    [][(window = "open" /\ window' = "destroyed") => prompts'.quit = "ok"]_vars

\* C28: at most one calendar window exists at any time.
C28_OneCalendar == Cardinality(calendar_open) <= 1

\* ======================================================================
\* Further properties of the edit history and of the line-number debounce
\* ======================================================================
\* C29: the two stacks together never hold more than max_undo_stack_size
\* entries; custom_undo and custom_redo keep their total, and save_undo_state
\* changes nothing or leaves the redo stack empty.
C29_TotalBounded ==
    /\ Len(undo_stack) + Len(redo_stack) <= max_undo_stack_size
    /\ op \in {"undo", "redo"}
          => Len(undo_stack) + Len(redo_stack) = Len(pre.undo) + Len(pre.redo)
    /\ op = "save"
          => \/ (undo_stack = pre.undo /\ redo_stack = pre.redo)
             \/ redo_stack = <<>>

\* an undo has moved an entry to the redo stack while the other stayed on
\* the undo stack: the two stacks fill the bound together
C29_Witness ==
    /\ op = "undo"
    /\ Len(undo_stack) = 1
    /\ Len(redo_stack) = max_undo_stack_size - 1
    /\ Len(redo_stack) >= 1

\* the timer callbacks registered with master.after fire eventually
SpecRefreshLive == SpecRefresh /\ WF_vars(refresh_timer)

\* C30: while update_line_number_scheduled is true an update_line_numbers
\* callback is pending, and a set flag is eventually reset by an execution of
\* update_line_numbers, so a later notification registers a fresh callback.
C30_FlagNeverStuck ==
    /\ [](update_line_number_scheduled => line_timers >= 1)
    /\ update_line_number_scheduled ~> ~update_line_number_scheduled

\* the timer has run update_line_numbers for a notification and the flag is
\* clear again with nothing left pending
C30_Witness ==
    /\ op = "refresh"
    /\ pre.op \in {"type", "delete"}
    /\ ~update_line_number_scheduled
    /\ line_timers = 0

====
